---- MODULE Spec2Model ----
(***************************************************************************)
(* subtrim (src/main.rs): extraction of time blocks from an SRT track.     *)
(*                                                                         *)
(* Time values.  A command-line value (f64, seconds) is represented by an  *)
(* integer count of sub-millisecond units: SubMs units make one            *)
(* millisecond, MsPerSec * SubMs units make one second.  TimePoint and     *)
(* TimeDelta of the subparse crate are integer milliseconds.               *)
(*                                                                         *)
(* Option<T> is a sequence of length 0 (None) or 1 (Some).                 *)
(***************************************************************************)
EXTENDS Integers, Sequences, FiniteSets

VARIABLES pc, blocks, subtitles, new_subtitles, mapped, i, result, output,
          written, log

vars == <<pc, blocks, subtitles, new_subtitles, mapped, i, result, output,
          written, log>>

----------------------------------------------------------------------------
(* Bounds of the model *)

SubMs == 2
MaxMs == 3
WinMs == 2
MaxCues == 2
MaxBlocks == 2
TrimCues == 1

(* Program constant: milliseconds per second *)
MsPerSec == 1000

----------------------------------------------------------------------------
(* Option *)

None == <<>>
Some(x) == <<x>>
is_some(o) == Len(o) = 1

(* f64 -> i64 casts of trim_subtitles.  `as i64` truncates toward zero.    *)

TruncDiv(v, d) == IF v >= 0 THEN v \div d ELSE -((-v) \div d)

\* start.trunc() as i64 : whole seconds
trunc_secs(v) == TruncDiv(v, MsPerSec * SubMs)

\* start.fract() : the rest, same sign as v, in sub-millisecond units
fract(v) == v - trunc_secs(v) * MsPerSec * SubMs

\* (start.fract() * 1000.0) as i64 : whole milliseconds of the fraction
\* (the values are exact here; the rounding of the f64 product, at most one
\* unit in the last place, and NaN or infinite arguments are not represented)
fract_msecs(v) == TruncDiv(fract(v), SubMs)

\* TimePoint::from_components / TimeDelta::from_components
from_components(hours, mins, secs, msecs) ==
    msecs + MsPerSec * (secs + 60 * (mins + 60 * hours))

is_negative(t) == t < 0

TimeSpan_new(start, end) == [start |-> start, end |-> end]

\* entry.timespan - start_delta
TimeSpan_sub(ts, delta) == TimeSpan_new(ts.start - delta, ts.end - delta)

\* entry.line.clone().unwrap_or_else(|| String::new())
unwrap_or_empty(line) == IF is_some(line) THEN line[1] ELSE ""

----------------------------------------------------------------------------
(* trim_subtitles *)

RECURSIVE filter_map(_, _)
filter_map(opts, k) ==
    IF k > Len(opts) THEN <<>>
    ELSE (IF is_some(opts[k]) THEN <<opts[k][1]>> ELSE <<>>)
         \o filter_map(opts, k + 1)


(* Variants of the closure with one plausible slip each; the checks below  *)
(* tell them from the closure as written.                                  *)

\* slip: the end is not clamped to end_point
closure_no_end_clamp(entry, start_delta, end_point) ==
    LET shifted == TimeSpan_sub(entry.timespan, start_delta)
        clamped == IF is_negative(shifted.start)
                   THEN TimeSpan_new(from_components(0, 0, 0, 0), shifted.end)
                   ELSE shifted
    IN IF is_negative(shifted.end) \/ shifted.start >= end_point
       THEN None
       ELSE Some(<<clamped, unwrap_or_empty(entry.line)>>)

\* slip: a cue ending exactly at the block start is dropped too
closure_drop_end_zero(entry, start_delta, end_point) ==
    LET shifted == TimeSpan_sub(entry.timespan, start_delta)
        clamped0 == IF is_negative(shifted.start)
                    THEN TimeSpan_new(from_components(0, 0, 0, 0), shifted.end)
                    ELSE shifted
        clamped1 == IF clamped0.end > end_point
                    THEN TimeSpan_new(clamped0.start, end_point)
                    ELSE clamped0
    IN IF shifted.end <= 0 \/ shifted.start >= end_point
       THEN None
       ELSE Some(<<clamped1, unwrap_or_empty(entry.line)>>)

\* slip: `>` for `>=` in the upper drop test
closure_start_gt(entry, start_delta, end_point) ==
    LET shifted == TimeSpan_sub(entry.timespan, start_delta)
        clamped0 == IF is_negative(shifted.start)
                    THEN TimeSpan_new(from_components(0, 0, 0, 0), shifted.end)
                    ELSE shifted
        clamped1 == IF clamped0.end > end_point
                    THEN TimeSpan_new(clamped0.start, end_point)
                    ELSE clamped0
    IN IF is_negative(shifted.end) \/ shifted.start > end_point
       THEN None
       ELSE Some(<<clamped1, unwrap_or_empty(entry.line)>>)

\* slip: the start is not clamped to zero
closure_no_start_clamp(entry, start_delta, end_point) ==
    LET shifted == TimeSpan_sub(entry.timespan, start_delta)
        clamped1 == IF shifted.end > end_point
                    THEN TimeSpan_new(shifted.start, end_point)
                    ELSE shifted
    IN IF is_negative(shifted.end) \/ shifted.start >= end_point
       THEN None
       ELSE Some(<<clamped1, unwrap_or_empty(entry.line)>>)

\* slip: an inverted span is put in order before it is emitted
closure_normalizing(entry, start_delta, end_point) ==
    LET shifted == TimeSpan_sub(entry.timespan, start_delta)
        clamped0 == IF is_negative(shifted.start)
                    THEN TimeSpan_new(from_components(0, 0, 0, 0), shifted.end)
                    ELSE shifted
        clamped1 == IF clamped0.end > end_point
                    THEN TimeSpan_new(clamped0.start, end_point)
                    ELSE clamped0
        ordered == IF clamped1.start > clamped1.end
                   THEN TimeSpan_new(clamped1.end, clamped1.start)
                   ELSE clamped1
    IN IF is_negative(shifted.end) \/ shifted.start >= end_point
       THEN None
       ELSE Some(<<ordered, unwrap_or_empty(entry.line)>>)

\* The closure given to filter_map: one entry, Option<(TimeSpan, String)>.
closure(entry, start_delta, end_point) ==
    LET shifted == TimeSpan_sub(entry.timespan, start_delta)
        clamped0 == IF is_negative(shifted.start)
                    THEN TimeSpan_new(from_components(0, 0, 0, 0), shifted.end)
                    ELSE shifted
        clamped1 == IF clamped0.end > end_point
                    THEN TimeSpan_new(clamped0.start, end_point)
                    ELSE clamped0
    IN IF is_negative(shifted.end) \/ shifted.start >= end_point
       THEN None
       ELSE Some(<<clamped1, unwrap_or_empty(entry.line)>>)

start_delta_of(start) ==
    from_components(0, 0, trunc_secs(start), fract_msecs(start))

end_point_of(duration) ==
    from_components(0, 0, trunc_secs(duration), fract_msecs(duration))

\* subtitles.into_iter().map(closure): one Option per entry, in entry order
map_closure(subs, start, duration) ==
    [j \in 1..Len(subs) |->
        closure(subs[j], start_delta_of(start), end_point_of(duration))]

\* slip: the block's cues are put in front of the ones already collected
trim_subtitles_prepend(subs, start, duration, acc) ==
    filter_map(map_closure(subs, start, duration), 1) \o acc

\* new_subtitles.extend(subtitles.into_iter().filter_map(closure))
trim_subtitles(subs, start, duration, acc) ==
    acc \o filter_map(map_closure(subs, start, duration), 1)

----------------------------------------------------------------------------
(* validate_blocks: Result<()>.  ok, or the failed ensure! and the index   *)
(* of the block whose iteration returned the error.                        *)

Ok == [ok |-> TRUE, cond |-> "", at |-> 0]
Err(cond, at) == [ok |-> FALSE, cond |-> cond, at |-> at]

RECURSIVE validate_loop_strict(_, _, _)
\* slip: `time < block.0`, touching blocks rejected
validate_loop_strict(bs, k, time) ==
    IF k > Len(bs) THEN Ok
    ELSE IF ~(bs[k][1] < bs[k][2]) THEN Err("block.0 < block.1", k)
    ELSE IF ~(time < bs[k][1]) THEN Err("time <= block.0", k)
    ELSE validate_loop_strict(bs, k + 1, bs[k][2])

RECURSIVE validate_loop(_, _, _)
validate_loop(bs, k, time) ==
    IF k > Len(bs) THEN Ok
    ELSE IF ~(bs[k][1] < bs[k][2]) THEN Err("block.0 < block.1", k)
    ELSE IF ~(time <= bs[k][1]) THEN Err("time <= block.0", k)
    ELSE validate_loop(bs, k + 1, bs[k][2])

validate_blocks(bs) == validate_loop(bs, 1, 0)

----------------------------------------------------------------------------
(* SrtFile::create(..).to_data(): numbered entries, each time point split  *)
(* into hours, minutes, seconds and milliseconds.                          *)

srt_time(t) ==
    <<t \div (3600 * MsPerSec), (t \div (60 * MsPerSec)) % 60,
      (t \div MsPerSec) % 60, t % MsPerSec>>

to_data(subs) ==
    [k \in 1..Len(subs) |->
        [index |-> k,
         start |-> srt_time(subs[k][1].start),
         end   |-> srt_time(subs[k][1].end),
         text  |-> subs[k][2]]]

----------------------------------------------------------------------------
(* Inputs.                                                                 *)

SeqsUpTo(S, n) == UNION {[1..m -> S] : m \in 0..n}

\* A value above one second, with a fraction of a millisecond.
BigRaw == (MsPerSec + 1) * SubMs + 1

\* Block bounds as parse_range yields them: the text before the first `-`
\* holds no sign, so a start is never negative; whole milliseconds and one
\* value between two of them.
BlockTimes == {m * SubMs : m \in 0..WinMs} \cup {SubMs + 1}

Blocks == (BlockTimes \X BlockTimes)

\* SubtitleEntry values of the parsed file (SRT time stamps are not negative).
EntriesOf(times, lines, wellFormedOnly) ==
    {[timespan |-> TimeSpan_new(s, e), line |-> l] :
        <<s, e>> \in {p \in times \X times : ~wellFormedOnly \/ p[1] <= p[2]},
        l \in lines}

FileEntries == EntriesOf(0..MaxMs, {Some("A")}, TRUE)

\* Arguments of trim_subtitles on its own: any start and duration, among
\* them negative ones and values with whole seconds; spans in or out of
\* order; entries with and without a line.
TrimStarts == {m * SubMs : m \in 0..MaxMs} \cup {1, SubMs + 1, BigRaw, -1, -(SubMs + 1)}
TrimDurations == {m * SubMs : m \in 0..MaxMs} \cup {1, SubMs + 1, BigRaw, -SubMs}
TrimEntries == EntriesOf((0..MaxMs) \cup {MsPerSec + 1}, {None, Some("A")}, FALSE)

----------------------------------------------------------------------------
(* try_main *)

\* after Args::parse(): at least one block (required = true)
Init ==
    /\ pc = "args"
    /\ blocks \in (SeqsUpTo(Blocks, MaxBlocks) \ {<<>>})
    /\ subtitles = <<>>
    /\ new_subtitles = <<>>
    /\ mapped = <<>>
    /\ i = 1
    /\ result = Ok
    /\ output = <<>>
    /\ written = FALSE
    /\ log = <<>>

\* slip: the Result of validate_blocks is not propagated
Validate_ignored ==
    /\ pc = "args"
    /\ result' = validate_blocks(blocks)
    /\ pc' = "validated"
    /\ log' = Append(log, "validate")
    /\ UNCHANGED <<blocks, subtitles, new_subtitles, mapped, i, output, written>>

\* validate_blocks(&options.blocks)?
Validate ==
    /\ pc = "args"
    /\ result' = validate_blocks(blocks)
    /\ pc' = IF result'.ok THEN "validated" ELSE "error"
    /\ log' = Append(log, "validate")
    /\ UNCHANGED <<blocks, subtitles, new_subtitles, mapped, i, output, written>>

\* slip: the input is read and parsed before the blocks are validated
ReadParse_first ==
    /\ pc = "args"
    /\ \E track \in SeqsUpTo(FileEntries, MaxCues) :
          subtitles' = track
    /\ pc' = "trim"
    /\ log' = Append(log, "parse")
    /\ UNCHANGED <<blocks, new_subtitles, mapped, i, result, output, written>>

\* fs::read_to_string / stdin, SrtFile::parse, get_subtitle_entries
ReadParse ==
    /\ pc = "validated"
    /\ \E track \in SeqsUpTo(FileEntries, MaxCues) :
          subtitles' = track
    /\ pc' = "trim"
    /\ log' = Append(log, "parse")
    /\ UNCHANGED <<blocks, new_subtitles, mapped, i, result, output, written>>

\* the same, failing: `?` returns the error
ReadParseFail ==
    /\ pc = "validated"
    /\ result' = Err("Could not parse input file as SRT", 0)
    /\ pc' = "error"
    /\ log' = Append(log, "parse")
    /\ UNCHANGED <<blocks, subtitles, new_subtitles, mapped, i, output, written>>

\* one iteration of `for block in options.blocks`
TrimBlock ==
    /\ pc = "trim"
    /\ i <= Len(blocks)
    /\ mapped' = map_closure(subtitles, blocks[i][1], blocks[i][2])
    /\ new_subtitles' =
          trim_subtitles(subtitles, blocks[i][1], blocks[i][2], new_subtitles)
    /\ i' = i + 1
    /\ log' = Append(log, "trim")
    /\ UNCHANGED <<pc, blocks, subtitles, result, output, written>>

\* SrtFile::create(new_subtitles), to_data, fs::write / stdout
Write ==
    /\ pc = "trim"
    /\ i > Len(blocks)
    /\ output' = to_data(new_subtitles)
    /\ written' = TRUE
    /\ pc' = "done"
    /\ log' = Append(log, "write")
    /\ UNCHANGED <<blocks, subtitles, new_subtitles, mapped, i, result>>

\* the same, failing
WriteFail ==
    /\ pc = "trim"
    /\ i > Len(blocks)
    /\ result' = Err("Could not write subtitles", 0)
    /\ pc' = "error"
    /\ log' = Append(log, "write")
    /\ UNCHANGED <<blocks, subtitles, new_subtitles, mapped, i, output, written>>

Next ==
    \/ Validate
    \/ ReadParse
    \/ ReadParseFail
    \/ TrimBlock
    \/ Write
    \/ WriteFail

Spec == Init /\ [][Next]_vars

----------------------------------------------------------------------------
(* trim_subtitles on its own: one call, arbitrary arguments.               *)

InitTrim ==
    /\ pc = "trim"
    /\ blocks \in {<<w>> : w \in TrimStarts \X TrimDurations}
    /\ subtitles \in SeqsUpTo(TrimEntries, TrimCues)
    /\ new_subtitles = <<>>
    /\ mapped = <<>>
    /\ i = 1
    /\ result = Ok
    /\ output = <<>>
    /\ written = FALSE
    /\ log = <<>>

NextTrim == TrimBlock

TrimSpec == InitTrim /\ [][NextTrim]_vars

----------------------------------------------------------------------------
(* Vocabulary of the properties.  The window of the latest trim_subtitles  *)
(* call, in the units of TimeDelta and TimePoint (whole milliseconds,      *)
(* the fraction of a millisecond cut off), and entry j seen from it.       *)

ToMs(raw) == IF raw >= 0 THEN raw \div SubMs ELSE -((-raw) \div SubMs)

Trimmed == i > 1
LastBlock == blocks[i - 1]
WStart == ToMs(LastBlock[1])
WExtent == ToMs(LastBlock[2])

Entries == 1..Len(subtitles)
WellFormed(j) == subtitles[j].timespan.start <= subtitles[j].timespan.end
ShiftedStart(j) == subtitles[j].timespan.start - WStart
ShiftedEnd(j) == subtitles[j].timespan.end - WStart
DropRule(j) == ShiftedEnd(j) < 0 \/ ShiftedStart(j) >= WExtent
Emitted(j) == Len(mapped[j]) = 1
EmittedSpan(j) == mapped[j][1][1]
EmittedText(j) == mapped[j][1][2]
TextOf(j) == IF subtitles[j].line = <<>> THEN "" ELSE subtitles[j].line[1]
Max(a, b) == IF a >= b THEN a ELSE b
Min(a, b) == IF a <= b THEN a ELSE b

----------------------------------------------------------------------------
(* C1: in multi-window mode every cue emitted for a validated window       *)
(* (start, end) has an emitted end <= end - start, the window's duration.  *)
(* The code passes the raw end as the duration, so this fails.             *)
C1_EndWithinTrueDuration ==
    (pc \in {"trim", "done"} /\ Trimmed) =>
        \A j \in Entries :
            Emitted(j) => EmittedSpan(j).end * SubMs <= LastBlock[2] - LastBlock[1]

(* C2: for a window with extent >= 0 and an entry whose span is in order,  *)
(* every emitted cue satisfies 0 <= start <= end <= extent.                *)
C2_Clamping ==
    (Trimmed /\ WExtent >= 0) =>
        \A j \in Entries :
            (WellFormed(j) /\ Emitted(j)) =>
                /\ 0 <= EmittedSpan(j).start
                /\ EmittedSpan(j).start <= EmittedSpan(j).end
                /\ EmittedSpan(j).end <= WExtent

C2_Witness ==
    /\ Trimmed
    /\ WExtent > 0
    /\ \E j \in Entries :
          /\ WellFormed(j) /\ Emitted(j)
          /\ ShiftedStart(j) < 0
          /\ ShiftedEnd(j) > WExtent

(* C3 as stated: an entry whose shifted end is exactly 0 is always dropped *)
C3_EndAtWindowStartDropped ==
    Trimmed =>
        \A j \in Entries :
            (WellFormed(j) /\ ShiftedEnd(j) = 0) => ~Emitted(j)

(* C3 amended: an entry whose shifted end is exactly 0 is dropped only     *)
(* when its shifted start is >= extent; for an extent > 0 it is emitted,   *)
(* as the zero-length cue (0, 0) with its text.                            *)
C3_EndAtWindowStartKept ==
    Trimmed =>
        \A j \in Entries :
            (WellFormed(j) /\ ShiftedEnd(j) = 0) =>
                /\ ~Emitted(j) <=> ShiftedStart(j) >= WExtent
                /\ WExtent > 0 =>
                      mapped[j] = <<<<[start |-> 0, end |-> 0], TextOf(j)>>>>

C3_Witness ==
    /\ Trimmed
    /\ WExtent > 0
    /\ \E j \in Entries :
          /\ WellFormed(j)
          /\ ShiftedEnd(j) = 0
          /\ ShiftedStart(j) < 0
          /\ Emitted(j)

(* C4: nothing is emitted for an entry whose shifted end is negative, nor  *)
(* for one whose shifted start is >= extent (equal included).              *)
C4_OutsideDropped ==
    Trimmed =>
        \A j \in Entries :
            /\ ShiftedEnd(j) < 0 => ~Emitted(j)
            /\ ShiftedStart(j) >= WExtent => ~Emitted(j)

C4_Witness ==
    /\ Trimmed
    /\ WExtent > 0
    /\ \E j \in Entries :
          /\ WellFormed(j)
          /\ ShiftedStart(j) = WExtent
          /\ ~Emitted(j)

(* C8: an entry with its span in order that the drop rule keeps yields     *)
(* exactly one cue, with span (max(0, s - start), min(extent, e - start))  *)
(* and the entry's text, or "" when it has none.                           *)
C8_ShiftAndClamp ==
    Trimmed =>
        /\ \A j \in Entries :
              (WellFormed(j) /\ ~DropRule(j)) =>
                  mapped[j] =
                     <<<<[start |-> Max(0, ShiftedStart(j)),
                          end   |-> Min(WExtent, ShiftedEnd(j))],
                         TextOf(j)>>>>
        /\ Len(new_subtitles) = Cardinality({j \in Entries : ~DropRule(j)})

C8_Witness ==
    /\ Trimmed
    /\ WStart > 0
    /\ \E j \in Entries :
          /\ WellFormed(j) /\ ~DropRule(j)
          /\ subtitles[j].line = <<>>
          /\ ShiftedStart(j) < 0
          /\ ShiftedEnd(j) <= WExtent
          /\ EmittedText(j) = ""
          /\ EmittedSpan(j).start = 0

(* C9: an entry with start > end is dropped by the drop rule or emitted    *)
(* with span exactly (s - start, e - start), start still after end.        *)
C9_MalformedPassedThrough ==
    Trimmed =>
        \A j \in Entries :
            ~WellFormed(j) =>
                IF DropRule(j)
                THEN ~Emitted(j)
                ELSE /\ mapped[j] =
                           <<<<[start |-> ShiftedStart(j), end |-> ShiftedEnd(j)],
                               TextOf(j)>>>>
                     /\ EmittedSpan(j).start > EmittedSpan(j).end

C9_Witness ==
    /\ Trimmed
    /\ \E j \in Entries :
          /\ ~WellFormed(j)
          /\ Emitted(j)
          /\ WStart > 0

----------------------------------------------------------------------------
(* C5: validate_blocks rejects, at the first offending block, a list in    *)
(* which some block has start >= end or starts before the previous block's *)
(* end, and accepts every other list, touching blocks included.            *)
Offending(k) ==
    \/ blocks[k][1] >= blocks[k][2]
    \/ k > 1 /\ blocks[k][1] < blocks[k - 1][2]

FirstOffending ==
    CHOOSE k \in 1..Len(blocks) :
        Offending(k) /\ \A m \in 1..(k - 1) : ~Offending(m)

JustValidated == log = <<"validate">>

C5_ValidatorVerdict ==
    JustValidated =>
        IF \E k \in 1..Len(blocks) : Offending(k)
        THEN ~result.ok /\ result.at = FirstOffending /\ pc = "error"
        ELSE result.ok /\ pc = "validated"

C5_Witness ==
    /\ JustValidated
    /\ Len(blocks) = 2
    /\ blocks[2][1] = blocks[1][2]
    /\ result.ok
    /\ pc = "validated"

(* C6: when validation of the blocks fails the run ends in an error, the   *)
(* trimmer is never called and nothing is serialized or written.           *)
C6_AllOrNothing ==
    (pc # "args" /\ \E k \in 1..Len(blocks) : Offending(k)) =>
        /\ pc = "error"
        /\ log = <<"validate">>
        /\ subtitles = <<>>
        /\ mapped = <<>>
        /\ new_subtitles = <<>>
        /\ output = <<>>
        /\ ~written

C6_Witness ==
    /\ pc = "error"
    /\ Len(blocks) = 2
    /\ ~Offending(1)
    /\ Offending(2)
    /\ ~written

(* C7: the collected track is the concatenation, in block order, of what   *)
(* trim_subtitles yields for each block on its own, and within a block's   *)
(* part the cues follow the order of their entries in the input track.     *)
RECURSIVE OwnParts(_)
OwnParts(n) ==
    IF n = 0 THEN <<>>
    ELSE OwnParts(n - 1)
         \o trim_subtitles(subtitles, blocks[n][1], blocks[n][2], <<>>)

InEntryOrder(n) ==
    LET part == trim_subtitles(subtitles, blocks[n][1], blocks[n][2], <<>>)
        sd == start_delta_of(blocks[n][1])
        ep == end_point_of(blocks[n][2])
        kept == {j \in Entries : closure(subtitles[j], sd, ep) # <<>>}
    IN \E f \in [1..Len(part) -> Entries] :
          /\ \A a, b \in 1..Len(part) : a < b => f[a] < f[b]
          /\ {f[a] : a \in 1..Len(part)} = kept
          /\ \A a \in 1..Len(part) :
                <<part[a]>> = closure(subtitles[f[a]], sd, ep)

C7_Concatenation ==
    (pc \in {"trim", "done"}) =>
        /\ new_subtitles = OwnParts(i - 1)
        /\ \A n \in 1..(i - 1) : InEntryOrder(n)
        /\ pc = "done" =>
              /\ i = Len(blocks) + 1
              /\ Len(output) = Len(new_subtitles)
              /\ \A k \in 1..Len(output) :
                    /\ output[k].index = k
                    /\ output[k].text = new_subtitles[k][2]
                    /\ output[k].start = srt_time(new_subtitles[k][1].start)
                    /\ output[k].end = srt_time(new_subtitles[k][1].end)

C7_Witness ==
    /\ pc = "done"
    /\ Len(blocks) = 2
    /\ Len(subtitles) = 2
    /\ subtitles[1].timespan.start > subtitles[2].timespan.start
    /\ Len(new_subtitles) = 3
    /\ new_subtitles[1] # new_subtitles[3]

(* C10 as stated: the blocks are never validated before the input track    *)
(* has been read and parsed.                                               *)
C10_ParseBeforeValidate ==
    \A k \in 1..Len(log) :
        log[k] = "validate" => \E m \in 1..(k - 1) : log[m] = "parse"

(* C10 amended: the blocks are validated first, then the input is read and *)
(* parsed, then the trimmer runs once per block, then the result is        *)
(* serialized and written.                                                 *)
StepOrder ==
    <<"validate", "parse">> \o [k \in 1..Len(blocks) |-> "trim"] \o <<"write">>

C10_StepOrder ==
    (pc # "args" \/ log # <<>>) =>
        /\ Len(log) <= Len(StepOrder)
        /\ log = SubSeq(StepOrder, 1, Len(log))
        /\ pc = "done" => log = StepOrder

C10_Witness ==
    /\ pc = "done"
    /\ Len(blocks) = 2
    /\ log = <<"validate", "parse", "trim", "trim", "write">>

====
